---- MODULE Spec2Model ----
(***************************************************************************)
(* Model of the FastAPI backend of the IEEE-123 reconfiguration tool       *)
(* (src/backend/main.py): the /isolamento and /mapear_nfs endpoints, the   *)
(* per-switch simulation simulate_nf, the voltage classification           *)
(* barras_por_fluxo and the load aggregation load_loads.                   *)
(*                                                                         *)
(* The OpenDSS engine (module opendssdirect, "dssod") is one process-wide  *)
(* circuit.  FastAPI runs "def" endpoints on a thread pool, so several     *)
(* requests can be in flight; each takes its steps at the dssod calls.     *)
(* Granularity of a step: the commented blocks of simulate_nf              *)
(* (recompile / nominal state + open NF / Solve / read voltages).          *)
(*                                                                         *)
(* kW values are naturals: the float sums of the code are exact on them.   *)
(***************************************************************************)
EXTENDS Integers, Sequences, FiniteSets, TLC

\* ---------------------------------------------------------------- bounds
\* threads of the FastAPI pool that serve requests at the same time
NumWorkers == 2
\* context bound of the scheduler: how often a thread may make a dssod call
\* while the request of the thread that made the previous one is in flight,
\* counted from one quiet moment (no request in flight) to the next
MaxPreempt == 1
\* LoadSpec: longest load file (in lines) that is enumerated
MaxLines == 3

Workers == 1..NumWorkers

\* ------------------------------------------------------- program constants
\* barras_por_fluxo(dss, eps_volt=1.0)
EpsVolt == 1
\* the literal lists of simulate_nf / mapear_nfs / isolamento
NFList == <<"sw1", "sw2", "sw3", "sw4", "sw5", "sw6">>
NAList == <<"sw7", "sw8">>

Range(s) == {s[i] : i \in DOMAIN s}
NFs == Range(NFList)
NAs == Range(NAList)

\* position of a switch identifier in the scan list; the identifiers
\* sw1..sw6 are in ascending order there
SwNum(name) == CHOOSE i \in DOMAIN NFList : NFList[i] = name

\* ------------------------------------------------------------ bus names
\* A bus name "b6.1.2" is the sequence of its dot-separated parts
\* <<"b6","1","2">>; the empty string is <<>>.
\* normalize(bus): bus.split('.')[0] if bus else ""
normalize(bus) == IF bus = <<>> THEN "" ELSE bus[1]

\* ------------------------------------------------- the circuit (data files)
\* The feeder that MASTER compiles: a radial feeder fed from "src", six NF
\* switches and two NA ties, as the lists of simulate_nf expect.
\* Bus1()/Bus2() carry node qualifiers.
Lines ==
  { [name |-> "sw1", bus1 |-> <<"src">>,          bus2 |-> <<"b1">>],
    [name |-> "l1",  bus1 |-> <<"b1", "1", "2">>, bus2 |-> <<"b2", "1", "2">>],
    [name |-> "sw2", bus1 |-> <<"b2">>,           bus2 |-> <<"b3">>],
    [name |-> "sw3", bus1 |-> <<"b2">>,           bus2 |-> <<"b4">>],
    [name |-> "sw4", bus1 |-> <<"b3">>,           bus2 |-> <<"b5">>],
    [name |-> "l2",  bus1 |-> <<"b5", "1">>,      bus2 |-> <<"b6", "1">>],
    [name |-> "sw5", bus1 |-> <<"b6">>,           bus2 |-> <<"b7">>],
    [name |-> "sw6", bus1 |-> <<"b3">>,           bus2 |-> <<"b8">>],
    [name |-> "sw7", bus1 |-> <<"b4">>,           bus2 |-> <<"b7">>],
    [name |-> "sw8", bus1 |-> <<"b8">>,           bus2 |-> <<"b4">>] }

LineNames == {l.name : l \in Lines}
SourceBus == "src"

\* all_bus_names() of the solved circuit, in the solver's order.  The code
\* normalizes these names too (line 73); bus b6 is reported under two
\* qualified names.
AllBusNames ==
  << <<"src">>, <<"b1">>, <<"b2">>, <<"b3">>, <<"b4">>, <<"b5">>,
     <<"b6", "1">>, <<"b6", "2">>, <<"b7">>, <<"b8">> >>

\* A line of the LOADS file, as load_loads sees it: whether it contains
\* "new load", and the groups of the two regex searches: m_bus / m_kw are
\* <<>> when the search finds nothing (None), else <<the captured value>>.
LoadFile ==
  << [isLoad |-> TRUE,  m_bus |-> << <<"b1", "1">> >>, m_kw |-> <<5>>],
     [isLoad |-> TRUE,  m_bus |-> << <<"b4", "2">> >>, m_kw |-> <<3>>],
     [isLoad |-> FALSE, m_bus |-> << <<"b3">> >>,      m_kw |-> <<9>>],
     [isLoad |-> TRUE,  m_bus |-> << <<"b5", "1">> >>, m_kw |-> <<2>>],
     [isLoad |-> TRUE,  m_bus |-> << <<"b5", "2">> >>, m_kw |-> <<2>>],
     [isLoad |-> TRUE,  m_bus |-> << <<"b6", "1">> >>, m_kw |-> <<1>>],
     [isLoad |-> TRUE,  m_bus |-> << <<"b7", "3">> >>, m_kw |-> <<4>>] >>

\* the spans a client asks for: a line inside the feeder, a line at the
\* source, a name that is no line
Vaos == {"l2", "sw1", "zz"}

\* ------------------------------------------------------------ load model
EmptyDict == [b \in {} |-> 0]

\* loads.get(b, 0)
Get(loads, b) == IF b \in DOMAIN loads THEN loads[b] ELSE 0

\* a loop body that assigns instead of accumulating
LoadLineOverwrite(loads, rec) ==
  IF ~rec.isLoad THEN loads
  ELSE IF rec.m_bus = <<>> \/ rec.m_kw = <<>> THEN loads
  ELSE LET bus == normalize(rec.m_bus[1])
       IN  [b \in DOMAIN loads \cup {bus} |->
              IF b = bus THEN rec.m_kw[1] ELSE loads[b]]

\* the body of the "for line in f" loop of load_loads
LoadLine(loads, rec) ==
  IF ~rec.isLoad THEN loads
  ELSE IF rec.m_bus = <<>> \/ rec.m_kw = <<>> THEN loads
  ELSE LET bus == normalize(rec.m_bus[1])
           kw  == rec.m_kw[1]
       IN  [b \in DOMAIN loads \cup {bus} |->
              IF b = bus THEN Get(loads, bus) + kw ELSE loads[b]]

RECURSIVE LoadLinesFrom(_, _, _)
LoadLinesFrom(loads, file, i) ==
  IF i > Len(file) THEN loads
  ELSE LoadLinesFrom(LoadLine(loads, file[i]), file, i + 1)

\* load_loads(): {} when the LOADS file does not exist
load_loads(exists) ==
  IF ~exists THEN EmptyDict ELSE LoadLinesFrom(EmptyDict, LoadFile, 1)

\* ------------------------------------------------------ the solver (dssod)
\* Buses connected to the source over lines that are not open: what Solve
\* energizes.
RECURSIVE ReachFrom(_, _)
ReachFrom(S, openSw) ==
  LET closed == {l \in Lines : l.name \notin openSw}
      next == S \cup {normalize(l.bus2) : l \in {k \in closed : normalize(k.bus1) \in S}}
                \cup {normalize(l.bus1) : l \in {k \in closed : normalize(k.bus2) \in S}}
  IN  IF next = S THEN S ELSE ReachFrom(next, openSw)

Energized(openSw) == ReachFrom({SourceBus}, openSw)

VARIABLE
  noMags        \* the buses for which the solver reports no magnitudes
                \* (VMagAngle returns an empty list or None)

\* Bus.VMagAngle() of the active bus: (magnitude, angle) per phase, for
\* the solution volts (the buses the last Solve energized; none before the
\* first Solve of a compiled circuit)
VMagAngle(b, volts) ==
  IF b \in noMags THEN <<>>
  ELSE IF normalize(b) \in volts
  THEN <<2400, 0, 2400, 240, 2400, 120>>
  ELSE <<0, 0, 0, 0, 0, 0>>

\* open_switch / close_switch on the set of open switches
open_switch(openSw, name) == openSw \cup {name}
close_switch(openSw, name) == openSw \ {name}

RECURSIVE CloseAll(_, _, _)
CloseAll(openSw, list, i) ==
  IF i > Len(list) THEN openSw
  ELSE CloseAll(close_switch(openSw, list[i]), list, i + 1)

RECURSIVE OpenAll(_, _, _)
OpenAll(openSw, list, i) ==
  IF i > Len(list) THEN openSw
  ELSE OpenAll(open_switch(openSw, list[i]), list, i + 1)

\* simulate_nf, "garantir estado nominal" and "abrir NF"
Configure(openSw, nf) ==
  open_switch(OpenAll(CloseAll(openSw, NFList, 1), NAList, 1), nf)

\* ------------------------------------------------------ barras_por_fluxo
\* s[0::2]
EvenSlice(s) == [i \in 1..((Len(s) + 1) \div 2) |-> s[2 * i - 1]]

MaxOf(s) == CHOOSE m \in Range(s) : \A x \in Range(s) : x <= m

RECURSIVE BarrasFrom(_, _, _, _)
BarrasFrom(i, isol, energ, volts) ==
  IF i > Len(AllBusNames) THEN [ok |-> TRUE, isol |-> isol, energ |-> energ]
  ELSE LET b == AllBusNames[i]
           mags == EvenSlice(VMagAngle(b, volts))
       IN  IF mags = <<>>
           THEN [ok |-> FALSE, isol |-> isol, energ |-> energ]  \* max([]) raises
           ELSE IF MaxOf(mags) < EpsVolt
           THEN BarrasFrom(i + 1, Append(isol, normalize(b)), energ, volts)
           ELSE BarrasFrom(i + 1, isol, Append(energ, normalize(b)), volts)

barras_por_fluxo(volts) == BarrasFrom(1, <<>>, <<>>, volts)

\* sum(loads.get(b,0) for b in isol), isol a list
RECURSIVE SumLoads(_, _, _)
SumLoads(loads, isol, i) ==
  IF i > Len(isol) THEN 0 ELSE Get(loads, isol[i]) + SumLoads(loads, isol, i + 1)

\* the return value of simulate_nf once the voltages are read
SimResult(nf, loads, volts) ==
  LET r == barras_por_fluxo(volts)
  IN  [ok |-> r.ok, nf |-> nf, isol |-> Range(r.isol), kw |-> SumLoads(loads, r.isol, 1)]

\* ---------------------------------------------------------------- ranking
\* a sort key that forgets the number of isolated buses
KeyLessKwOnly(a, b) == a[2] < b[2]

\* key=lambda x:(x[1],x[2]) on tuples (nf, kW, len(isol))
KeyLess(a, b) == a[2] < b[2] \/ (a[2] = b[2] /\ a[3] < b[3])

\* list.sort is stable: x goes behind every element whose key is not larger
RECURSIVE InsertStable(_, _)
InsertStable(s, x) ==
  IF s = <<>> THEN <<x>>
  ELSE IF KeyLess(x, Head(s)) THEN <<x>> \o s
  ELSE <<Head(s)>> \o InsertStable(Tail(s), x)

RECURSIVE SortFrom(_, _, _)
SortFrom(out, s, i) ==
  IF i > Len(s) THEN out ELSE SortFrom(InsertStable(out, s[i]), s, i + 1)

SortCandidatos(s) == SortFrom(<<>>, s, 1)

\* topo of isolamento: every line name -> normalized end buses
Topo == [n \in LineNames |->
           LET l == CHOOSE k \in Lines : k.name = n
           IN  [from |-> normalize(l.bus1), to |-> normalize(l.bus2)]]

\* ------------------------------------------------------------------ state
VARIABLES
  dssBound,     \* whether the module global "dss" read at line 114 is bound
                \* (main.py never assigns it; a hosting notebook may)
  masterExists, \* the MASTER file can be compiled
  loadsExists,  \* os.path.exists(LOADS)
  open,         \* dssod circuit: the switches whose terminals are open
  volt,         \* dssod circuit: the solution, as the set of energized buses
                \* (empty from Compile to the next Solve)
  user,         \* the request thread that made the last dssod call (0: none
                \* since the last quiet moment)
  preempt,      \* scheduler: context switches counted against MaxPreempt
  pc,           \* per thread: where its request is
  kind,         \* per thread: the endpoint of its request
  vao,          \* per thread: the query parameter of /isolamento
  loads,        \* per thread: local loads
  idx,          \* per thread: position of the scan loop (7: the re-run of the best NF)
  nf,           \* per thread: the NF handed to simulate_nf
  candidatos,   \* per thread: local candidatos, tuples (nf, kW, len(isol))
  last,         \* per thread: the value the last simulate_nf returned
  resp,         \* per thread: the response of its request
  isolating,    \* history, per thread: the results of the scan of its request
                \* whose isolated set holds both ends of the span, as
                \* [nf, kw, n] with n the number of isolated buses
  evals,        \* history, per thread: the NFs its request has handed to
                \* simulate_nf, in call order
  recs,         \* LoadSpec: the lines of a LOADS file
  pos,          \* LoadSpec: the line load_loads is at
  acc,          \* LoadSpec: local loads of load_loads
  ref           \* LoadSpec: <<>>, or <<what load_loads returned for the first order
                \* of the lines, that order>>

envVars == <<dssBound, masterExists, loadsExists, noMags>>
dssVars == <<open, volt, user, preempt>>
reqVars == <<pc, kind, vao, loads, idx, nf, candidatos, last, resp, isolating, evals>>
loadVars == <<recs, pos, acc, ref>>
vars == <<envVars, dssVars, reqVars, loadVars>>

NoResult == [ok |-> FALSE, nf |-> "", isol |-> {}, kw |-> 0]
Pending == [type |-> "pending"]

Init ==
  /\ dssBound \in BOOLEAN
  /\ masterExists \in BOOLEAN
  /\ loadsExists \in BOOLEAN
  /\ noMags \in {{}, {<<"b8">>}}
  /\ open = {} /\ volt = {} /\ user = 0 /\ preempt = 0
  /\ pc = [w \in Workers |-> "idle"]
  /\ kind = [w \in Workers |-> ""]
  /\ vao = [w \in Workers |-> ""]
  /\ loads = [w \in Workers |-> EmptyDict]
  /\ idx = [w \in Workers |-> 0]
  /\ nf = [w \in Workers |-> ""]
  /\ candidatos = [w \in Workers |-> <<>>]
  /\ last = [w \in Workers |-> NoResult]
  /\ resp = [w \in Workers |-> Pending]
  /\ isolating = [w \in Workers |-> {}]
  /\ evals = [w \in Workers |-> <<>>]
  /\ recs = <<>> /\ pos = 0 /\ acc = EmptyDict /\ ref = <<>>

\* a thread of the pool takes a request: its locals are fresh
Fresh(w, k, v, at) ==
  /\ pc[w] = "idle"
  /\ pc' = [pc EXCEPT ![w] = at]
  /\ kind' = [kind EXCEPT ![w] = k]
  /\ vao' = [vao EXCEPT ![w] = v]
  /\ loads' = [loads EXCEPT ![w] = EmptyDict]
  /\ idx' = [idx EXCEPT ![w] = 0]
  /\ nf' = [nf EXCEPT ![w] = ""]
  /\ candidatos' = [candidatos EXCEPT ![w] = <<>>]
  /\ last' = [last EXCEPT ![w] = NoResult]
  /\ resp' = [resp EXCEPT ![w] = Pending]
  /\ isolating' = [isolating EXCEPT ![w] = {}]
  /\ evals' = [evals EXCEPT ![w] = <<>>]
  /\ UNCHANGED <<envVars, dssVars, loadVars>>

\* GET /isolamento?vao=v
ReceiveIsolamento(w, v) == Fresh(w, "isolamento", v, "topo")

\* GET /mapear_nfs
ReceiveMapear(w) == Fresh(w, "mapear_nfs", "", "loads")

\* the request of w ends with response r
Respond(w, r) ==
  /\ pc' = [pc EXCEPT ![w] = "done"]
  /\ resp' = [resp EXCEPT ![w] = r]

\* thread w makes a dssod call: the scheduler lets it run
Call(w) ==
  /\ user' = w
  /\ IF user \in {0, w} \/ pc[user] \in {"idle", "done"}
     THEN preempt' = preempt
     ELSE preempt < MaxPreempt /\ preempt' = preempt + 1

Raise(what) == [type |-> "exception", what |-> what]

\* an endpoint that does not look the span up
VaoAlways(v) == v = v

\* "vao not in topo" is false
VaoKnown(v) == v \in DOMAIN Topo

\* isolamento, "1) Carregar modelo nominal para extrair topologia" up to
\* "if vao not in topo"
Topologia(w) ==
  /\ pc[w] = "topo"
  /\ Call(w)
  /\ open' = {} /\ volt' = {}
  /\ IF ~masterExists
     THEN Respond(w, Raise("DSSException"))
     ELSE IF ~VaoKnown(vao[w])
     THEN Respond(w, [type |-> "erro", vao |-> vao[w]])
     ELSE /\ pc' = [pc EXCEPT ![w] = "loads"]
          /\ UNCHANGED resp
  /\ UNCHANGED <<envVars, kind, vao, loads, idx, nf, candidatos, last, isolating,
                 evals, loadVars>>

\* loads = load_loads(), and the scan loop starts at its first NF
CarregarCargas(w) ==
  /\ pc[w] = "loads"
  /\ loads' = [loads EXCEPT ![w] = load_loads(loadsExists)]
  /\ idx' = [idx EXCEPT ![w] = 1]
  /\ nf' = [nf EXCEPT ![w] = NFList[1]]
  /\ pc' = [pc EXCEPT ![w] = "compile"]
  /\ UNCHANGED <<envVars, dssVars, kind, vao, candidatos, last, resp, isolating,
                 evals, loadVars>>

\* simulate_nf, "recompilar limpo": ClearAll and Compile
Recompile(w) ==
  /\ pc[w] = "compile"
  /\ Call(w)
  /\ open' = {} /\ volt' = {}
  /\ evals' = [evals EXCEPT ![w] = Append(@, nf[w])]
  /\ IF ~masterExists
     THEN Respond(w, Raise("DSSException"))
     ELSE /\ pc' = [pc EXCEPT ![w] = "config"]
          /\ UNCHANGED resp
  /\ UNCHANGED <<envVars, kind, vao, loads, idx, nf, candidatos, last, isolating, loadVars>>

\* simulate_nf, "garantir estado nominal" and "abrir NF"
AbrirNF(w) ==
  /\ pc[w] = "config"
  /\ Call(w)
  /\ open' = Configure(open, nf[w])
  /\ pc' = [pc EXCEPT ![w] = "solve"]
  /\ UNCHANGED <<envVars, volt, kind, vao, loads, idx, nf, candidatos, last,
                 resp, isolating, evals, loadVars>>

\* simulate_nf, dssod.Text.Command("Solve"): the solver converges
Solve(w) ==
  /\ pc[w] = "solve"
  /\ Call(w)
  /\ volt' = Energized(open)
  /\ pc' = [pc EXCEPT ![w] = "read"]
  /\ UNCHANGED <<envVars, open, kind, vao, loads, idx, nf, candidatos, last, resp,
                 isolating, evals, loadVars>>

\* simulate_nf, dssod.Text.Command("Solve"): the solver does not converge;
\* nothing catches the exception between here and the endpoint
SolveFails(w) ==
  /\ pc[w] = "solve"
  /\ Call(w)
  /\ Respond(w, Raise("SolverError"))
  /\ UNCHANGED <<envVars, open, volt, kind, vao, loads, idx, nf, candidatos,
                 last, isolating, evals, loadVars>>

\* the tuple isolamento appends for a result that contains both ends
Candidato(r) == <<r.nf, r.kw, Cardinality(r.isol)>>

\* a filter that accepts a result holding either end of the span
IsolaEither(r, v) == Topo[v].from \in r.isol \/ Topo[v].to \in r.isol

\* "if u in isol and v in isol"
Isola(r, v) == Topo[v].from \in r.isol /\ Topo[v].to \in r.isol

\* the response of isolamento for the re-run r of the best NF
Escolhida(v, r) ==
  [type |-> "escolhida", vao |-> v, from |-> Topo[v].from, to |-> Topo[v].to,
   nf_escolhida |-> r.nf, barras_isoladas |-> r.isol, kw_interrompido |-> r.kw]

\* simulate_nf from barras_por_fluxo(dss) to its return, and the caller up to
\* its next call of simulate_nf or its return
Read(w) ==
  /\ pc[w] = "read"
  /\ LET r == SimResult(nf[w], loads[w], volt)
         cands == IF kind[w] = "isolamento" /\ idx[w] <= Len(NFList) /\ Isola(r, vao[w])
                  THEN Append(candidatos[w], Candidato(r))
                  ELSE candidatos[w]
     IN
     IF ~dssBound
     THEN /\ Respond(w, Raise("NameError"))
          /\ UNCHANGED <<user, preempt, idx, nf, candidatos, last, isolating>>
     ELSE IF ~r.ok
     THEN /\ Respond(w, Raise("ValueError"))
          /\ Call(w)
          /\ UNCHANGED <<idx, nf, candidatos, last, isolating>>
     ELSE
       /\ Call(w)
       /\ last' = [last EXCEPT ![w] = r]
       /\ candidatos' = [candidatos EXCEPT ![w] = cands]
       /\ isolating' = [isolating EXCEPT ![w] =
             IF kind[w] = "isolamento" /\ idx[w] <= Len(NFList)
                /\ {Topo[vao[w]].from, Topo[vao[w]].to} \subseteq r.isol
             THEN @ \cup {[nf |-> r.nf, kw |-> r.kw, n |-> Cardinality(r.isol)]}
             ELSE @]
       /\ IF idx[w] < Len(NFList)
          THEN \* next NF of the loop
               /\ idx' = [idx EXCEPT ![w] = @ + 1]
               /\ nf' = [nf EXCEPT ![w] = NFList[idx[w] + 1]]
               /\ pc' = [pc EXCEPT ![w] = "compile"]
               /\ UNCHANGED resp
          ELSE IF kind[w] = "mapear_nfs"
          THEN /\ Respond(w, [type |-> "nfs"])
               /\ UNCHANGED <<idx, nf>>
          ELSE IF idx[w] = Len(NFList)
          THEN IF cands = <<>>
               THEN /\ Respond(w, [type |-> "nenhuma_nf_isola_vao"])
                    /\ UNCHANGED <<idx, nf>>
               ELSE \* sort, best = candidatos[0], simulate_nf(nf_best, loads)
                    /\ idx' = [idx EXCEPT ![w] = @ + 1]
                    /\ nf' = [nf EXCEPT ![w] = SortCandidatos(cands)[1][1]]
                    /\ pc' = [pc EXCEPT ![w] = "compile"]
                    /\ UNCHANGED resp
          ELSE /\ Respond(w, Escolhida(vao[w], r))
               /\ UNCHANGED <<idx, nf>>
  /\ UNCHANGED <<envVars, open, volt, kind, vao, loads, evals, loadVars>>

\* the response is sent; the thread returns to the pool and its locals die
Deliver(w) ==
  /\ pc[w] = "done"
  /\ pc' = [pc EXCEPT ![w] = "idle"]
  /\ kind' = [kind EXCEPT ![w] = ""]
  /\ vao' = [vao EXCEPT ![w] = ""]
  /\ loads' = [loads EXCEPT ![w] = EmptyDict]
  /\ idx' = [idx EXCEPT ![w] = 0]
  /\ nf' = [nf EXCEPT ![w] = ""]
  /\ candidatos' = [candidatos EXCEPT ![w] = <<>>]
  /\ last' = [last EXCEPT ![w] = NoResult]
  /\ resp' = [resp EXCEPT ![w] = Pending]
  /\ isolating' = [isolating EXCEPT ![w] = {}]
  /\ evals' = [evals EXCEPT ![w] = <<>>]
  /\ IF \A x \in Workers \ {w} : pc[x] = "idle"
     THEN user' = 0 /\ preempt' = 0
     ELSE UNCHANGED <<user, preempt>>
  /\ UNCHANGED <<envVars, open, volt, loadVars>>

Next ==
  \/ \E w \in Workers : \E v \in Vaos : ReceiveIsolamento(w, v)
  \/ \E w \in Workers : ReceiveMapear(w)
  \/ \E w \in Workers : Topologia(w)
  \/ \E w \in Workers : CarregarCargas(w)
  \/ \E w \in Workers : Recompile(w)
  \/ \E w \in Workers : AbrirNF(w)
  \/ \E w \in Workers : Solve(w)
  \/ \E w \in Workers : SolveFails(w)
  \/ \E w \in Workers : Read(w)
  \/ \E w \in Workers : Deliver(w)

Spec == Init /\ [][Next]_vars

\* ------------------------------------------------ load_loads, line by line
\* the bus1= values and the lines that LoadSpec enumerates
LoadBuses == { <<"b1">>, <<"b1", "1">>, <<"b2", "3">> }

LoadRecords ==
  {[isLoad |-> FALSE, m_bus |-> << <<"b1">> >>, m_kw |-> <<1>>]}
    \cup {[isLoad |-> TRUE, m_bus |-> mb, m_kw |-> mk] :
            mb \in {<<>>} \cup {<<b>> : b \in LoadBuses},
            mk \in {<<>>, <<1>>, <<2>>}}

SeqsUpTo(S, n) == UNION {[1..k -> S] : k \in 0..n}

\* a LOADS file that exists, about to be read
LoadInit ==
  /\ dssBound = TRUE /\ masterExists = TRUE /\ loadsExists = TRUE
  /\ noMags = {}
  /\ open = {} /\ volt = {} /\ user = 0 /\ preempt = 0
  /\ pc = [w \in Workers |-> "idle"]
  /\ kind = [w \in Workers |-> ""]
  /\ vao = [w \in Workers |-> ""]
  /\ loads = [w \in Workers |-> EmptyDict]
  /\ idx = [w \in Workers |-> 0]
  /\ nf = [w \in Workers |-> ""]
  /\ candidatos = [w \in Workers |-> <<>>]
  /\ last = [w \in Workers |-> NoResult]
  /\ resp = [w \in Workers |-> Pending]
  /\ isolating = [w \in Workers |-> {}]
  /\ evals = [w \in Workers |-> <<>>]
  /\ recs \in SeqsUpTo(LoadRecords, MaxLines)
  /\ pos = 1 /\ acc = EmptyDict /\ ref = <<>>

\* one pass of "for line in f"
LoadStep ==
  /\ pos \in 1..Len(recs)
  /\ acc' = LoadLine(acc, recs[pos])
  /\ pos' = pos + 1
  /\ UNCHANGED <<envVars, dssVars, reqVars, recs, ref>>

\* "return loads" of the first call
LoadReturn ==
  /\ pos = Len(recs) + 1
  /\ ref = <<>>
  /\ ref' = <<acc, recs>>
  /\ UNCHANGED <<envVars, dssVars, reqVars, recs, pos, acc>>

\* the file is rewritten with two neighbouring lines exchanged, and
\* load_loads is called again
LoadReorder(i) ==
  /\ pos = Len(recs) + 1
  /\ ref # <<>>
  /\ i \in 1..(Len(recs) - 1)
  /\ recs[i] # recs[i + 1]
  /\ recs' = [recs EXCEPT ![i] = recs[i + 1], ![i + 1] = recs[i]]
  /\ pos' = 1
  /\ acc' = EmptyDict
  /\ UNCHANGED <<envVars, dssVars, reqVars, ref>>

LoadNext ==
  \/ LoadStep
  \/ LoadReturn
  \/ \E i \in 1..MaxLines : LoadReorder(i)

LoadSpec == LoadInit /\ [][LoadNext]_vars

\* =================================================================
\* Properties
\* =================================================================
Done(w) == pc[w] = "done"
Isolamento(w) == kind[w] = "isolamento"

\* all six NFs of the scan of w returned a result
ScanComplete(w) ==
  \/ idx[w] = Len(NFList) + 1
  \/ idx[w] = Len(NFList) /\ last[w].ok /\ last[w].nf = NFList[Len(NFList)]

\* a is not behind b under (kw, n, switch identifier)
RankLeq(a, b) ==
  \/ a.kw < b.kw
  \/ a.kw = b.kw /\ a.n < b.n
  \/ a.kw = b.kw /\ a.n = b.n /\ SwNum(a.nf) <= SwNum(b.nf)

\* C1: the NF /isolamento answers with is the least, under (interrupted kW,
\* number of isolated buses, switch identifier), of the scan results whose
\* isolated set holds both ends of the span; and the list the code ranks
\* holds exactly those results.
C1_BestIsMinimal ==
  \A w \in Workers :
    /\ Isolamento(w) =>
         {[nf |-> c[1], kw |-> c[2], n |-> c[3]] : c \in Range(candidatos[w])} = isolating[w]
    /\ (Done(w) /\ resp[w].type = "escolhida") =>
         \E a \in isolating[w] :
           /\ a.nf = resp[w].nf_escolhida
           /\ \A b \in isolating[w] : RankLeq(a, b)

\* C1 witness: an answer where a second result ties on kW and loses on its
\* larger number of isolated buses
C1_Witness ==
  \E w \in Workers :
    /\ Done(w) /\ resp[w].type = "escolhida"
    /\ \E a, b \in isolating[w] :
         a.nf = resp[w].nf_escolhida /\ b.kw = a.kw /\ b.n > a.n

\* an answer where a second result ties on kW and on the number of buses
\* and loses on its identifier
C1_WitnessIdTie ==
  \E w \in Workers :
    /\ Done(w) /\ resp[w].type = "escolhida"
    /\ \E a, b \in isolating[w] :
         a.nf = resp[w].nf_escolhida /\ b.kw = a.kw /\ b.n = a.n /\ b.nf # a.nf

C3_SolverFailureContained ==
  \A w \in Workers : Done(w) => resp[w] # Raise("SolverError")

\* w is between the reset and the query of an evaluation
Evaluating(w) == pc[w] \in {"config", "solve", "read"}

\* C4: between the reset and the query of an evaluation no other request
\* calls the circuit, and the solution the evaluation reads is that of its
\* own candidate's configuration.
C4_NoInterleaving ==
  \A w \in Workers :
    /\ Evaluating(w) => user = w
    /\ pc[w] = "read" => volt = Energized(NAs \cup {nf[w]})

\* what simulate_nf returns for nf on a circuit nothing has touched yet
FreshResult(n, ld) == SimResult(n, ld, Energized(NAs \cup {n}))

\* C5: whatever ran before, simulate_nf returns for a candidate what it
\* returns for it on an untouched circuit.
C5_OrderIndependent ==
  \A w \in Workers : last[w].ok => last[w] = FreshResult(last[w].nf, loads[w])

RECURSIVE SumOver(_, _)
SumOver(ld, S) ==
  IF S = {} THEN 0
  ELSE LET b == CHOOSE x \in S : TRUE IN Get(ld, b) + SumOver(ld, S \ {b})

\* C6: the kW of a result is the sum of the load of each bus of its isolated
\* set, each counted once.
C6_Conservation ==
  \A w \in Workers : last[w].ok => last[w].kw = SumOver(loads[w], last[w].isol)

\* C7: with the topology source or the load source missing, a query does
\* not end with a switch or with "no switch isolates" (it ends with a
\* fatal error instead).
C7_DataMissingFatal ==
  \A w \in Workers :
    (Done(w) /\ Isolamento(w)) =>
      ((~masterExists \/ ~loadsExists) =>
         resp[w].type \notin {"escolhida", "nenhuma_nf_isola_vao"})

\* C8: a query for a span that is no line of the topology never enters the
\* scan (it is never at a Compile, a Solve or a read of simulate_nf, and no
\* simulate_nf returned to it) and ends with an error response.
C8_UnknownSpan ==
  \A w \in Workers :
    (Isolamento(w) /\ vao[w] \notin LineNames) =>
      /\ pc[w] \in {"topo", "done"}
      /\ idx[w] = 0 /\ last[w] = NoResult
      /\ Done(w) => resp[w].type \in {"erro", "exception"}

\* C8 witness: the query for an unknown span has ended with "erro"
C8_Witness ==
  \E w \in Workers : Done(w) /\ vao[w] = "zz" /\ resp[w].type = "erro"

\* the lines of file that are load records of bus b with a kW
RecordsOf(file, b) ==
  {i \in DOMAIN file :
     /\ file[i].isLoad /\ file[i].m_bus # <<>> /\ file[i].m_kw # <<>>
     /\ normalize(file[i].m_bus[1]) = b}

RECURSIVE SumKw(_, _)
SumKw(file, I) ==
  IF I = {} THEN 0
  ELSE LET i == CHOOSE x \in I : TRUE IN file[i].m_kw[1] + SumKw(file, I \ {i})

C10_BaselinePlusOne ==
  \A w \in Workers :
    (pc[w] = "read" /\ user = w) => open = NAs \cup {nf[w]}

\* the state of an evaluation, from where its thread is in simulate_nf: the
\* reset (ClearAll, Compile) leaves it Idle, "abrir NF" applies the
\* configuration, Solve solves it
EvalState(p) ==
  CASE p = "solve" -> "ConfigurationApplied"
    [] p = "read" -> "Solved"
    [] OTHER -> "Idle"

\* the steps of an evaluation come in the order of the state machine, whatever
\* ends it
C11_Order ==
  [][\A w \in Workers :
       LET s == EvalState(pc[w])
           t == EvalState(pc'[w])
       IN  \/ s = t
           \/ s = "Idle" /\ t = "ConfigurationApplied"
           \/ s = "ConfigurationApplied" /\ t = "Solved"
           \/ s = "ConfigurationApplied" /\ t = "Idle"
           \/ s = "Solved" /\ t = "Idle"]_vars

\* C11: every evaluation goes Idle, ConfigurationApplied, Solved, then
\* IsolationDetermined (simulate_nf returns its result) or SolverFailed (the
\* Solve call fails), then Idle: it leaves ConfigurationApplied for Solved or
\* as a solver failure, and it leaves Solved with the isolation determined.
C11_StateMachine ==
  [][\A w \in Workers :
       LET s == EvalState(pc[w])
           t == EvalState(pc'[w])
       IN  \/ s = t
           \/ s = "Idle" /\ t = "ConfigurationApplied"
           \/ s = "ConfigurationApplied" /\ t = "Solved"
           \/ s = "ConfigurationApplied" /\ t = "Idle"
                /\ resp'[w] = Raise("SolverError")
           \/ s = "Solved" /\ t = "Idle"
                /\ resp'[w].type # "exception"
                /\ last'[w] = SimResult(nf[w], loads[w], volt)]_vars

\* C12: a query that ran its scan to an answer made one evaluation per
\* candidate: the NFs handed to simulate_nf are the candidates, each once.
C12_OncePerCandidate ==
  \A w \in Workers :
    (Done(w) /\ Isolamento(w)
       /\ resp[w].type \in {"escolhida", "nenhuma_nf_isola_vao"})
    => evals[w] = NFList

\* the energization magnitude of bus b in the solution: max(mags)
Magnitude(b) == MaxOf(EvenSlice(VMagAngle(b, volt)))

\* C13: after a solve the classification is defined for every bus the solver
\* names, also for one without magnitudes; every bus is put in one of the two
\* lists, and in the isolated one exactly when its energization magnitude is
\* strictly below the threshold.
C13_Classification ==
  \A w \in Workers :
    pc[w] = "read" =>
      LET r == barras_por_fluxo(volt)
          buses == Range(AllBusNames)
      IN  /\ r.ok
          /\ Range(r.isol) = {normalize(b) : b \in {x \in buses : Magnitude(x) < EpsVolt}}
          /\ Range(r.energ) = {normalize(b) : b \in {x \in buses : Magnitude(x) >= EpsVolt}}
          /\ Len(r.isol) + Len(r.energ) = Len(AllBusNames)

\* the same classification, for solutions in which every bus has magnitudes
C13_WithMagnitudes ==
  noMags = {} => C13_Classification

====
